---- MODULE Spec2Model ----
(***************************************************************************)
(* Model of the request-authorization and request-hardening middleware of  *)
(* src/src/middleware/rbac.middleware.js and auth.middleware.js.           *)
(*                                                                         *)
(* A middleware invocation is one action: it draws the factory arguments   *)
(* and the request, runs the handler to its end and leaves the outcome     *)
(* (response status, number of next() calls, log entries) in the state.    *)
(*                                                                         *)
(* JavaScript strings that the code takes apart (path parameters fed to    *)
(* parseInt) are sequences of one-character strings; strings the code only *)
(* compares or uses as keys (role names, permissions) are TLA+ strings.    *)
(***************************************************************************)
EXTENDS Integers, Sequences, FiniteSets, TLC

VARIABLES
    mw,         \* the middleware (or function) that ran last, "none" at start
    arg,        \* the arguments it was built / called with
    req,        \* the request it ran on
    status,     \* status of the response it sent, 0 when it sent none
    nextCalls,  \* how many times it called next()
    logs,       \* the log entries it wrote, in order
    ret,        \* return value of a plain function call: [threw, value]
    retryAfter, \* retryAfter field of the response body, 0 when it has none
    tier,       \* arguments the rate limiter under test was created with
    now,        \* Date.now(), in milliseconds since the limiter was created
    store,      \* the limiter's buckets: key -> [count, windowStart]
    before,     \* the bucket the last request's key had when it arrived
    payload,    \* body, query, params and headers the hardening middleware saw
    sanitized,  \* body, query and params as the middleware left them on req
    resHeaders, \* names of the response headers the middleware set
    flight      \* requests on their way through the rate limiter, by slot

guardVars == <<mw, arg, req, status, nextCalls, logs, ret, retryAfter, before>>
rateVars == <<tier, now, store>>
hardVars == <<payload, sanitized, resHeaders>>
vars == <<mw, arg, req, status, nextCalls, logs, ret, retryAfter, tier, now, store, before,
          payload, sanitized, resHeaders, flight>>

(***************************************************************************)
(* Bounds of the model.                                                    *)
(***************************************************************************)
MaxLen == 3          \* longest path-parameter string
MaxPerms == 2        \* longest permission list handed to any-of / all-of
MaxTicks == 2        \* clock steps of half a window each
HitsOver == 1        \* requests a key sends beyond its tier's maximum
MaxKeys == 2         \* distinct keys that send requests in one run
MaxFlights == 4      \* requests on their way through the rate limiter at one time
MaxDepth == 3        \* levels of mappings and sequences around a string of a request

(***************************************************************************)
(* PERMISSIONS and ROLES (rbac.middleware.js:4-70).                        *)
(***************************************************************************)
PERMISSIONS ==
    { "users:create", "users:read", "users:update", "users:delete",
      "users:read:all", "users:update:any", "users:delete:any",
      "profile:read", "profile:update",
      "admin:panel", "admin:logs", "admin:system" }

ROLES ==
    [ guest      |-> << >>,
      user       |-> << "profile:read", "profile:update", "users:read" >>,
      moderator  |-> << "profile:read", "profile:update", "users:read",
                        "users:read:all", "users:update" >>,
      admin      |-> << "profile:read", "profile:update", "users:create",
                        "users:read", "users:update", "users:delete",
                        "users:read:all", "users:update:any",
                        "users:delete:any", "admin:panel", "admin:logs",
                        "admin:system" >>,
      superadmin |-> << "*" >> ]

\* Property names every object literal inherits from Object.prototype: ROLES[k]
\* is a truthy value (a function or an object) without a "permissions" field.
ObjectPrototypeKeys ==
    { "constructor", "toString", "valueOf", "hasOwnProperty", "isPrototypeOf",
      "propertyIsEnumerable", "toLocaleString", "__proto__" }

\* Array.prototype.includes
includes(array, x) == \E i \in DOMAIN array : array[i] = x

\* ROLES[userRole]: an own entry, an inherited property, or undefined.  The key
\* is the string the role value converts to (undefined is the key "undefined").
RolesLookup(userRole) ==
    IF userRole \in DOMAIN ROLES
    THEN [kind |-> "role", permissions |-> ROLES[userRole]]
    ELSE IF userRole \in ObjectPrototypeKeys
         THEN [kind |-> "inherited", permissions |-> << >>]
         ELSE [kind |-> "undefined", permissions |-> << >>]

Returned(v) == [threw |-> FALSE, value |-> v]
Thrown == [threw |-> TRUE, value |-> FALSE]

\* Faulty variant: hasPermission without the wildcard test.
hasPermissionNoWildcard(userRole, requiredPermission) ==
    LET role == RolesLookup(userRole) IN
    IF role.kind = "undefined" THEN Returned(FALSE)
    ELSE IF role.kind = "inherited" THEN Thrown
    ELSE Returned(includes(role.permissions, requiredPermission))

\* hasPermission (rbac.middleware.js:73-82).  An inherited property is truthy
\* and has no permissions array: role.permissions.includes raises a TypeError.
hasPermission(userRole, requiredPermission) ==
    LET role == RolesLookup(userRole) IN
    IF role.kind = "undefined" THEN Returned(FALSE)
    ELSE IF role.kind = "inherited" THEN Thrown
    ELSE IF includes(role.permissions, "*") THEN Returned(TRUE)
    ELSE Returned(includes(role.permissions, requiredPermission))

\* A default parameter: "= []" replaces an argument that was not given.
DefaultList(a) == IF a.given THEN a.list ELSE << >>

\* hasAnyPermission (rbac.middleware.js:85-87): Array.prototype.some, left to
\* right, stopping at the first true; a throwing callback propagates.
RECURSIVE some(_, _)
some(userRole, list) ==
    IF list = << >> THEN Returned(FALSE)
    ELSE LET h == hasPermission(userRole, Head(list)) IN
         IF h.threw THEN Thrown
         ELSE IF h.value THEN Returned(TRUE)
         ELSE some(userRole, Tail(list))

hasAnyPermission(userRole, requiredPermissions) ==
    some(userRole, DefaultList(requiredPermissions))

\* hasAllPermissions (rbac.middleware.js:90-92): Array.prototype.every.
RECURSIVE every(_, _)
every(userRole, list) ==
    IF list = << >> THEN Returned(TRUE)
    ELSE LET h == hasPermission(userRole, Head(list)) IN
         IF h.threw THEN Thrown
         ELSE IF ~h.value THEN Returned(FALSE)
         ELSE every(userRole, Tail(list))

hasAllPermissions(userRole, requiredPermissions) ==
    every(userRole, DefaultList(requiredPermissions))

(***************************************************************************)
(* parseInt(string) with no radix, as ECMAScript defines it: leading white *)
(* space skipped, an optional sign, an optional 0x prefix, then the        *)
(* longest prefix of digits; NaN when that prefix is empty.                *)
(***************************************************************************)
Digits == << "0", "1", "2", "3", "4", "5", "6", "7", "8", "9",
             "a", "b", "c", "d", "e", "f" >>

DigitVal(c) == (CHOOSE i \in DOMAIN Digits : Digits[i] = c) - 1

IsDigit(c, radix) == \E i \in 1..radix : Digits[i] = c

RECURSIVE SkipSpace(_)
SkipSpace(s) ==
    IF s # << >> /\ Head(s) = " " THEN SkipSpace(Tail(s)) ELSE s

RECURSIVE ParseDigits(_, _, _, _)
ParseDigits(s, radix, acc, seen) ==
    IF s = << >> \/ ~IsDigit(Head(s), radix)
    THEN [nan |-> ~seen, val |-> acc]
    ELSE ParseDigits(Tail(s), radix, acc * radix + DigitVal(Head(s)), TRUE)

\* The string a path-parameter value converts to: an absent one is undefined.
ToStr(v) ==
    IF v.has THEN v.value ELSE << "u", "n", "d", "e", "f", "i", "n", "e", "d" >>

\* parseInt (called at rbac.middleware.js:253 and :301)
parseInt(v) ==
    LET t   == SkipSpace(ToStr(v))
        neg == t # << >> /\ Head(t) = "-"
        u   == IF t # << >> /\ Head(t) \in {"+", "-"} THEN Tail(t) ELSE t
        hex == Len(u) >= 2 /\ u[1] = "0" /\ u[2] \in {"x", "X"}
        d   == IF hex THEN SubSeq(u, 3, Len(u)) ELSE u
        r   == ParseDigits(d, IF hex THEN 16 ELSE 10, 0, FALSE)
    IN  [nan |-> r.nan, val |-> IF neg THEN 0 - r.val ELSE r.val]

\* parseInt(resourceId) === userId: NaN equals nothing, -0 equals 0.
StrictEquals(parsed, userId) == ~parsed.nan /\ parsed.val = userId

(***************************************************************************)
(* Outcome of one middleware invocation.                                   *)
(***************************************************************************)
Log(level, msg) == [level |-> level, msg |-> msg]

Respond(code, entries) == [status |-> code, nextCalls |-> 0, logs |-> entries, threw |-> FALSE]
CallNext(entries)      == [status |-> 0, nextCalls |-> 1, logs |-> entries, threw |-> FALSE]

\* An exception no catch block of the middleware stops: it leaves the handler
\* before any response is sent and before next() is called.
Propagated == [status |-> 0, nextCalls |-> 0, logs |-> << >>, threw |-> TRUE]

\* Faulty variant: a guard without its try/catch.
Uncaught(msg) == Propagated

\* catch (error) { logger.error(...); return res.status(500).json(...) }
Caught(msg) == Respond(500, << Log("error", msg) >>)

\* requirePermission (rbac.middleware.js:95-149)
requirePermission(requiredPermission, r) ==
    IF ~r.user.present
    THEN Respond(401, << Log("warn", "Permission check failed - no authenticated user") >>)
    ELSE LET h == hasPermission(r.user.role, requiredPermission) IN
         IF h.threw THEN Caught("Permission check error:")
         ELSE IF ~h.value
              THEN Respond(403, << Log("warn", "Permission denied") >>)
              ELSE CallNext(<< Log("info", "Permission granted") >>)

\* requireAnyPermission (rbac.middleware.js:152-190)
requireAnyPermission(requiredPermissions, r) ==
    IF ~r.user.present
    THEN Respond(401, << >>)
    ELSE LET h == hasAnyPermission(r.user.role, requiredPermissions) IN
         IF h.threw THEN Caught("Permission check error:")
         ELSE IF ~h.value
              THEN Respond(403, << Log("warn", "Permission denied - insufficient permissions") >>)
              ELSE CallNext(<< >>)

\* requireAllPermissions (rbac.middleware.js:193-231)
requireAllPermissions(requiredPermissions, r) ==
    IF ~r.user.present
    THEN Respond(401, << >>)
    ELSE LET h == hasAllPermissions(r.user.role, requiredPermissions) IN
         IF h.threw THEN Caught("Permission check error:")
         ELSE IF ~h.value
              THEN Respond(403, << Log("warn", "Permission denied - missing required permissions") >>)
              ELSE CallNext(<< >>)

\* requireOwnership (rbac.middleware.js:234-279).  req.params[resourceIdParam]
\* is read before the role is looked at and raises when req.params is absent.
requireOwnership(r) ==
    IF ~r.user.present
    THEN Respond(401, << >>)
    ELSE IF ~r.params.present THEN Caught("Ownership check error:")
    ELSE IF r.user.role = "admin" \/ r.user.role = "superadmin"
         THEN CallNext(<< >>)
    ELSE IF ~StrictEquals(parseInt(r.params), r.user.id)
         THEN Respond(403, << Log("warn", "Ownership check failed") >>)
         ELSE CallNext(<< >>)

\* requireOwnershipOrPermission (rbac.middleware.js:282-328)
requireOwnershipOrPermission(requiredPermission, r) ==
    IF ~r.user.present
    THEN Respond(401, << >>)
    ELSE IF ~r.params.present THEN Caught("Ownership/permission check error:")
    ELSE LET h == hasPermission(r.user.role, requiredPermission) IN
         IF h.threw THEN Caught("Ownership/permission check error:")
         ELSE IF h.value THEN CallNext(<< >>)
         ELSE IF StrictEquals(parseInt(r.params), r.user.id) THEN CallNext(<< >>)
         ELSE Respond(403, << Log("warn", "Access denied - neither ownership nor permission") >>)

(***************************************************************************)
(* Inputs.                                                                 *)
(***************************************************************************)
RegistryRoles == DOMAIN ROLES

\* Role strings an upstream token may carry: the registry's names, names that
\* are in no table, names Object.prototype defines, and undefined.
RoleInputs ==
    RegistryRoles \cup {"ghost", "undefined", "constructor", "toString", "__proto__"}

\* Permission strings: the catalog, the wildcard, one outside the catalog.
PermInputs == PERMISSIONS \cup {"*", "reports:read"}

\* Permission lists for any-of / all-of, drawn from a few permissions.
ListPerms == {"profile:read", "users:read:all", "users:delete:any", "reports:read"}

RECURSIVE SeqsUpTo(_, _)
SeqsUpTo(S, n) ==
    IF n = 0 THEN {<< >>}
    ELSE LET shorter == SeqsUpTo(S, n - 1) IN
         shorter \cup {Append(s, x) : s \in {t \in shorter : Len(t) = n - 1}, x \in S}

NotGiven == [given |-> FALSE, list |-> << >>]
ListArgs == {NotGiven} \cup {[given |-> TRUE, list |-> l] : l \in SeqsUpTo(ListPerms, MaxPerms)}

UserIds == {5, 6}
NoUser == [present |-> FALSE, id |-> 0, role |-> ""]
Users == {NoUser} \cup {[present |-> TRUE, id |-> i, role |-> ro] : i \in UserIds, ro \in RoleInputs}

Chars == {"0", "5", "6", "a", "x", " ", "-"}
NoParams == [present |-> FALSE, has |-> FALSE, value |-> << >>]
NoValue  == [present |-> TRUE,  has |-> FALSE, value |-> << >>]
ParamInputs ==
    {NoParams, NoValue} \cup
    {[present |-> TRUE, has |-> TRUE, value |-> s] : s \in SeqsUpTo(Chars, MaxLen)}

\* Requests to the guards that never read the path parameters.
PlainParams == {NoParams, [present |-> TRUE, has |-> TRUE, value |-> << "5" >>]}

NoLimit == [given |-> FALSE, text |-> << >>]
NoArg == [perm |-> "", perms |-> NotGiven, role |-> "", roles |-> << >>, limit |-> NoLimit]
NoRet == Returned(FALSE)

LocalIp == << "1" >>
Request(u, p) == [ip |-> LocalIp, remoteAddress |-> LocalIp, user |-> u, params |-> p]
NoBucket == [exists |-> FALSE, count |-> 0, windowStart |-> 0]

\* A JSON-like value: t is its type ("str", "num", "null", "map", "arr", or
\* "undef" for a property that is not there), s the text of a string, kids
\* the entries of a mapping or sequence in Object.entries order.
Absent == [t |-> "undef", s |-> << >>, kids |-> << >>]
NoHeader == [has |-> FALSE, value |-> << >>]
NoPayload ==
    [body |-> Absent, query |-> Absent, params |-> Absent,
     userAgent |-> NoHeader, referer |-> NoHeader, contentLength |-> NoHeader,
     queryReadOnly |-> FALSE, token |-> "none"]
NoSanitized == [body |-> Absent, query |-> Absent, params |-> Absent]

\* A slot of the rate limiter no request is in.
NoFlight == [pc |-> "none", key |-> << >>, seen |-> << >>, totalHits |-> 0, outcome |-> "none"]

(***************************************************************************)
(* Actions: one per function or middleware.  An invocation starts when no  *)
(* other one is in progress and runs to its end.                           *)
(***************************************************************************)
Idle == mw = "none"

Finish(name, a, r, out) ==
    /\ mw' = name
    /\ arg' = a
    /\ req' = r
    /\ status' = out.status
    /\ nextCalls' = out.nextCalls
    /\ logs' = out.logs
    /\ ret' = [threw |-> out.threw, value |-> FALSE]
    /\ retryAfter' = 0
    /\ before' = NoBucket
    /\ UNCHANGED <<rateVars, hardVars, flight>>

CallHasPermission ==
    /\ Idle
    /\ \E ro \in RoleInputs, p \in PermInputs :
        /\ mw' = "hasPermission"
        /\ arg' = [NoArg EXCEPT !.perm = p, !.role = ro]
        /\ req' = Request(NoUser, NoParams)
        /\ status' = 0
        /\ nextCalls' = 0
        /\ logs' = << >>
        /\ ret' = hasPermission(ro, p)
        /\ retryAfter' = 0
        /\ before' = NoBucket
        /\ UNCHANGED <<rateVars, hardVars, flight>>

CallRequirePermission ==
    /\ Idle
    /\ \E p \in PermInputs, u \in Users, pa \in PlainParams :
        Finish("requirePermission", [NoArg EXCEPT !.perm = p], Request(u, pa),
               requirePermission(p, Request(u, pa)))

CallRequireAnyPermission ==
    /\ Idle
    /\ \E ps \in ListArgs, u \in Users, pa \in PlainParams :
        Finish("requireAnyPermission", [NoArg EXCEPT !.perms = ps], Request(u, pa),
               requireAnyPermission(ps, Request(u, pa)))

CallRequireAllPermissions ==
    /\ Idle
    /\ \E ps \in ListArgs, u \in Users, pa \in PlainParams :
        Finish("requireAllPermissions", [NoArg EXCEPT !.perms = ps], Request(u, pa),
               requireAllPermissions(ps, Request(u, pa)))

CallRequireOwnership ==
    /\ Idle
    /\ \E u \in Users, pa \in ParamInputs :
        Finish("requireOwnership", NoArg, Request(u, pa),
               requireOwnership(Request(u, pa)))

CallRequireOwnershipOrPermission ==
    /\ Idle
    /\ \E p \in PermInputs, u \in Users, pa \in ParamInputs :
        Finish("requireOwnershipOrPermission", [NoArg EXCEPT !.perm = p], Request(u, pa),
               requireOwnershipOrPermission(p, Request(u, pa)))

\* The invocation is over: the server is ready for the next one.
Return ==
    /\ mw # "none"
    /\ mw' = "none"
    /\ arg' = NoArg
    /\ req' = Request(NoUser, NoParams)
    /\ status' = 0
    /\ nextCalls' = 0
    /\ logs' = << >>
    /\ ret' = NoRet
    /\ retryAfter' = 0
    /\ before' = NoBucket
    /\ payload' = NoPayload
    /\ sanitized' = NoSanitized
    /\ resHeaders' = {}
    /\ UNCHANGED <<rateVars, flight>>

Init ==
    /\ mw = "none"
    /\ arg = NoArg
    /\ req = Request(NoUser, NoParams)
    /\ status = 0
    /\ nextCalls = 0
    /\ logs = << >>
    /\ ret = NoRet
    /\ retryAfter = 0
    /\ before = NoBucket
    /\ tier = [windowMs |-> 15 * 60 * 1000, max |-> 100]
    /\ now = 0
    /\ store = << >>
    /\ payload = NoPayload
    /\ sanitized = NoSanitized
    /\ resHeaders = {}
    /\ flight = [i \in 1..MaxFlights |-> NoFlight]

Next ==
    \/ CallHasPermission
    \/ CallRequirePermission
    \/ CallRequireAnyPermission
    \/ CallRequireAllPermissions
    \/ CallRequireOwnership
    \/ CallRequireOwnershipOrPermission
    \/ Return

Spec == Init /\ [][Next]_vars

(***************************************************************************)
(* The rate limiter (auth.middleware.js:125-179).  createRateLimiter hands *)
(* its options to express-rate-limit; the window store of that library is  *)
(* modelled from section 4.5 of the specification.                         *)
(***************************************************************************)
CeilDiv(a, b) == (a + b - 1) \div b

\* Faulty variant: createRateLimiter that hands the store a ceiling one too high.
createRateLimiterMaxOffByOne(windowMs, max) ==
    [windowMs |-> windowMs, max |-> max + 1, retryAfter |-> CeilDiv(windowMs, 1000)]

\* Faulty variant: createRateLimiter that hands the store a window twice as long.
createRateLimiterLongWindow(windowMs, max) ==
    [windowMs |-> 2 * windowMs, max |-> max, retryAfter |-> CeilDiv(windowMs, 1000)]

\* Faulty variant: createRateLimiter that leaves retryAfter in milliseconds.
createRateLimiterRetryMs(windowMs, max) ==
    [windowMs |-> windowMs, max |-> max, retryAfter |-> windowMs]

\* createRateLimiter (auth.middleware.js:125-160): the options of rateLimit;
\* retryAfter is Math.ceil(windowMs / 1000), in the message and in the handler.
createRateLimiter(windowMs, max) ==
    [windowMs |-> windowMs, max |-> max, retryAfter |-> CeilDiv(windowMs, 1000)]

\* The named tiers (auth.middleware.js:163-179) and the specification's example.
authRateLimit   == [windowMs |-> 15 * 60 * 1000, max |-> 5]
apiRateLimit    == [windowMs |-> 15 * 60 * 1000, max |-> 100]
strictRateLimit == [windowMs |-> 60 * 1000, max |-> 10]
exampleRateLimit == [windowMs |-> 60000, max |-> 3]

\* The limiters the model runs.  apiRateLimit differs from authRateLimit in
\* its maximum alone, which puts its first rejection 101 requests away.
Tiers == {authRateLimit, strictRateLimit, exampleRateLimit}

\* `${n}` for an integer n.
RECURSIVE NatToStr(_)
NatToStr(n) ==
    IF n < 10 THEN << Digits[n + 1] >>
    ELSE Append(NatToStr(n \div 10), Digits[(n % 10) + 1])

IntToStr(n) == IF n < 0 THEN << "-" >> \o NatToStr(0 - n) ELSE NatToStr(n)

Anonymous == << "a", "n", "o", "n", "y", "m", "o", "u", "s" >>

\* keyGenerator (auth.middleware.js:137-141).  || takes its right side when
\* the left is falsy: an absent or empty ip, an absent identity, the id 0.
keyGenerator(r) ==
    LET ip     == IF r.ip # << >> THEN r.ip ELSE r.remoteAddress
        userId == IF r.user.present /\ r.user.id # 0
                  THEN IntToStr(r.user.id) ELSE Anonymous
    IN  ip \o << ":" >> \o userId

\* handler (auth.middleware.js:143-158)
rateLimitHandler(options) ==
    [status |-> 429, nextCalls |-> 0,
     logs |-> << Log("warn", "Rate limit exceeded") >>,
     retryAfter |-> options.retryAfter]

\* The bucket a key has in the store, NoBucket when it has none.
BucketOf(st, k) ==
    IF k \in DOMAIN st
    THEN [exists |-> TRUE, count |-> st[k].count, windowStart |-> st[k].windowStart]
    ELSE NoBucket

\* One hit of the fixed-window store: a fresh bucket with count 1 when the key
\* has none or its window has elapsed, else the count incremented.
Increment(st, k, t, windowMs) ==
    LET b == BucketOf(st, k) IN
    IF ~b.exists \/ t >= b.windowStart + windowMs
    THEN [count |-> 1, windowStart |-> t]
    ELSE [count |-> b.count + 1, windowStart |-> b.windowStart]

\* The middleware rateLimit(options) returns: count the hit, then reject
\* through the handler when the count exceeds the maximum, else call next().
rateLimit(options, st, r, t) ==
    LET k == keyGenerator(r)
        b == Increment(st, k, t, options.windowMs)
    IN  [store |-> (k :> b) @@ st,
         out   |-> IF b.count > options.max
                   THEN rateLimitHandler(options)
                   ELSE [status |-> 0, nextCalls |-> 1, logs |-> << >>, retryAfter |-> 0]]

\* Requests to the limiter: from origin 1 an anonymous one, one of identity 0
\* and one of identity 5; an anonymous one from origin 2; and an anonymous one
\* whose origin 1 shows in req.connection.remoteAddress alone.
Anon(ip, remote) == [ip |-> ip, remoteAddress |-> remote, user |-> NoUser, params |-> NoParams]
Known(ip, id) ==
    [ip |-> ip, remoteAddress |-> ip,
     user |-> [present |-> TRUE, id |-> id, role |-> "user"], params |-> NoParams]
RateRequests ==
    { Anon(<< "1" >>, << "1" >>), Known(<< "1" >>, 0), Known(<< "1" >>, 5),
      Anon(<< "2" >>, << "2" >>), Anon(<< >>, << "1" >>) }

\* The limiter's options, as the tier's createRateLimiter call builds them.
Options == createRateLimiter(tier.windowMs, tier.max)

\* A request reaches the limiter.
CallRateLimit ==
    /\ Idle
    /\ \E r \in RateRequests :
        LET k   == keyGenerator(r)
            res == rateLimit(Options, store, r, now)
        IN  /\ k \in DOMAIN store \/ Cardinality(DOMAIN store) < MaxKeys
            /\ res.store[k].count <= tier.max + HitsOver
            /\ mw' = "rateLimit"
            /\ arg' = NoArg
            /\ req' = r
            /\ status' = res.out.status
            /\ nextCalls' = res.out.nextCalls
            /\ logs' = res.out.logs
            /\ retryAfter' = res.out.retryAfter
            /\ ret' = NoRet
            /\ before' = BucketOf(store, k)
            /\ store' = res.store
            /\ UNCHANGED <<tier, now, hardVars, flight>>

\* Time passes: half a window at a step.
Tick ==
    /\ Idle
    /\ now < MaxTicks * (tier.windowMs \div 2)
    /\ now' = now + tier.windowMs \div 2
    /\ UNCHANGED <<guardVars, tier, store, hardVars, flight>>

InitRate ==
    /\ mw = "none"
    /\ arg = NoArg
    /\ req = Request(NoUser, NoParams)
    /\ status = 0
    /\ nextCalls = 0
    /\ logs = << >>
    /\ ret = NoRet
    /\ retryAfter = 0
    /\ before = NoBucket
    /\ tier \in Tiers
    /\ now = 0
    /\ store = << >>
    /\ payload = NoPayload
    /\ sanitized = NoSanitized
    /\ resHeaders = {}
    /\ flight = [i \in 1..MaxFlights |-> NoFlight]

NextRate ==
    \/ CallRateLimit
    \/ Tick
    \/ Return

SpecRate == InitRate /\ [][NextRate]_vars

(***************************************************************************)
(* Request hardening (auth.middleware.js).  The strings of a request body  *)
(* are taken apart by regular expressions and by the markup filter, so     *)
(* they are sequences of one-character strings.                            *)
(***************************************************************************)
Str(chars) == [t |-> "str", s |-> chars, kids |-> << >>]
Num  == [t |-> "num",  s |-> << >>, kids |-> << >>]
Null == [t |-> "null", s |-> << >>, kids |-> << >>]
Entry(key, value) == [k |-> key, v |-> value]
Map(entries) == [t |-> "map", s |-> << >>, kids |-> entries]

\* An array: Object.entries gives its items under the keys "0", "1", ...
Arr(items) ==
    [t |-> "arr", s |-> << >>,
     kids |-> [i \in 1..Len(items) |->
                  Entry(CASE i = 1 -> "0" [] i = 2 -> "1" [] OTHER -> "n", items[i])]]

IsObject(v) == v.t \in {"map", "arr"}

Header(chars) == [has |-> TRUE, value |-> chars]

\* The texts of the model: string values of requests, header values, size
\* strings and Content-Length values, each under a name that spells it.
Text ==
    [
      HelloWorld |-> << "h", "e", "l", "l", "o", " ", "w", "o", "r", "l",
           "d" >>,
      DropTable |-> << "'", ";", " ", "D", "R", "O", "P", " ", "T", "A", "B",
           "L", "E", " ", "u", "s", "e", "r", "s", ";", " ", "-", "-" >>,
      ScriptAlert |-> << "<", "s", "c", "r", "i", "p", "t", ">", "a", "l",
           "e", "r", "t", "(", "1", ")", "<", "/", "s", "c", "r", "i", "p",
           "t", ">" >>,
      BoldEmail |-> << "<", "b", ">", "A", "@", "X", ".", "c", "o", "m" >>,
      UpperEmail |-> << "A", "@", "X", ".", "c", "o", "m" >>,
      DropUsers |-> << "d", "r", "o", "p", " ", "u", "s", "e", "r", "s" >>,
      Dropped |-> << "d", "r", "o", "p", "p", "e", "d" >>,
      DotDotEtc |-> << ".", ".", "/", "e", "t", "c" >>,
      Description |-> << "d", "e", "s", "c", "r", "i", "p", "t", "i", "o",
           "n" >>,
      CurlAgent |-> << "c", "u", "r", "l", "/", "8", ".", "0" >>,
      BrowserAgent |-> << "M", "o", "z", "i", "l", "l", "a", "/", "5", ".",
           "0", " ", "(", "X", "1", "1", ")" >>,
      PlainReferer |-> << "h", "t", "t", "p", ":", "/", "/", "a", ".", "i",
           "o", "/" >>,
      QueryReferer |-> << "h", "t", "t", "p", ":", "/", "/", "a", ".", "i",
           "o", "/", "?", "q", "=", "1", "&", "r", "=", "2" >>,
      GreaterThan |-> << "a", ">", "b" >>,
      LowerEmail |-> << "a", "@", "x", ".", "c", "o", "m" >>,
      TenMb |-> << "1", "0", "m", "b" >>,
      NotASize |-> << "n", "o", "t", "-", "a", "-", "s", "i", "z", "e" >>,
      TenSpaceMB |-> << "1", "0", " ", "M", "B" >>,
      OneAndHalfKb |-> << "1", ".", "5", "k", "b" >>,
      TenXyz |-> << "1", "0", "x", "y", "z" >>,
      TenConstructor |-> << "1", "0", "c", "o", "n", "s", "t", "r", "u", "c",
           "t", "o", "r" >>,
      OneGb |-> << "1", "g", "b" >>,
      Len0 |-> << "0" >>,
      Len1 |-> << "1" >>,
      Len10 |-> << "1", "0" >>,
      Len1536 |-> << "1", "5", "3", "6" >>,
      Len1537 |-> << "1", "5", "3", "7" >>,
      LenTenMb |-> << "1", "0", "4", "8", "5", "7", "6", "0" >>,
      LenOverTenMb |-> << "1", "0", "4", "8", "5", "7", "6", "1" >>,
      LenAbc |-> << "a", "b", "c" >>
    ]

\* One more level of nesting around a value: as the only value of a mapping,
\* under the key email, as the only item of a sequence, after a number in a
\* sequence, and after a plain string in a mapping.
Wrap(v) ==
    { Map(<< Entry("name", v) >>),
      Map(<< Entry("email", v) >>),
      Arr(<< v >>),
      Arr(<< Num, v >>),
      Map(<< Entry("name", Str(Text.HelloWorld)), Entry("note", v) >>) }

RECURSIVE Trees(_, _)
Trees(leaves, depth) ==
    IF depth = 0 THEN leaves
    ELSE LET sub == Trees(leaves, depth - 1) IN
         sub \cup UNION {Wrap(v) : v \in sub}

\* What a body parser leaves in req.body: nothing, or a mapping or sequence.
Bodies(leaves) == {Absent} \cup {v \in Trees(leaves, MaxDepth) : IsObject(v)}

(***************************************************************************)
(* suspiciousActivityDetector (auth.middleware.js:230-281).  Each of its   *)
(* four regular expressions is an alternation of literals, with or without *)
(* the i flag and word boundaries; all four carry the g flag, so test()    *)
(* starts at the expression's lastIndex and leaves the end of the match,   *)
(* or 0 after a failure, in it.                                            *)
(***************************************************************************)
LowerCase == << "a", "b", "c", "d", "e", "f", "g", "h", "i", "j", "k", "l", "m",
                "n", "o", "p", "q", "r", "s", "t", "u", "v", "w", "x", "y", "z" >>
UpperCase == << "A", "B", "C", "D", "E", "F", "G", "H", "I", "J", "K", "L", "M",
                "N", "O", "P", "Q", "R", "S", "T", "U", "V", "W", "X", "Y", "Z" >>
DecimalDigits == {"0", "1", "2", "3", "4", "5", "6", "7", "8", "9"}

IsUpper(c) == \E i \in DOMAIN UpperCase : UpperCase[i] = c
LowerLetters == {LowerCase[i] : i \in DOMAIN LowerCase}
IsWordChar(c) == c \in LowerLetters \/ IsUpper(c) \/ c \in DecimalDigits \/ c = "_"

ToLowerChar(c) ==
    IF IsUpper(c) THEN LowerCase[CHOOSE i \in DOMAIN UpperCase : UpperCase[i] = c] ELSE c

RECURSIVE toLowerCase(_)
toLowerCase(s) ==
    IF s = << >> THEN << >> ELSE << ToLowerChar(Head(s)) >> \o toLowerCase(Tail(s))

\* /[<>'"%;()&+]/g (auth.middleware.js:232)
XssPattern ==
    [alts |-> << << "<" >>, << ">" >>, << "'" >>, << "\"" >>, << "%" >>,
                 << ";" >>, << "(" >>, << ")" >>, << "&" >>, << "+" >> >>,
     ignoreCase |-> FALSE, wordBound |-> FALSE]

\* /(\bunion\b|\bselect\b|\bdrop\b|\bdelete\b|\binsert\b|\bupdate\b)/gi (:233)
SqlPattern ==
    [alts |-> << << "u", "n", "i", "o", "n" >>, << "s", "e", "l", "e", "c", "t" >>,
                 << "d", "r", "o", "p" >>, << "d", "e", "l", "e", "t", "e" >>,
                 << "i", "n", "s", "e", "r", "t" >>, << "u", "p", "d", "a", "t", "e" >> >>,
     ignoreCase |-> TRUE, wordBound |-> TRUE]

\* /(\.\.\/)|(\.\.\\)/g (:234)
TraversalPattern ==
    [alts |-> << << ".", ".", "/" >>, << ".", ".", "\\" >> >>,
     ignoreCase |-> FALSE, wordBound |-> FALSE]

\* /(script|javascript|vbscript|onload|onerror)/gi (:235)
ScriptPattern ==
    [alts |-> << << "s", "c", "r", "i", "p", "t" >>,
                 << "j", "a", "v", "a", "s", "c", "r", "i", "p", "t" >>,
                 << "v", "b", "s", "c", "r", "i", "p", "t" >>,
                 << "o", "n", "l", "o", "a", "d" >>,
                 << "o", "n", "e", "r", "r", "o", "r" >> >>,
     ignoreCase |-> TRUE, wordBound |-> FALSE]

\* Faulty variant: the pattern list with the path-traversal expression left out.
suspiciousPatternsNoTraversal == << XssPattern, SqlPattern, ScriptPattern >>

\* suspiciousPatterns (auth.middleware.js:231-236)
suspiciousPatterns == << XssPattern, SqlPattern, TraversalPattern, ScriptPattern >>

\* The literal a matches at position i (counted from 1) of the string s,
\* whose folded text is text.
AltMatchesAt(p, text, s, i, a) ==
    LET j == i + Len(a) - 1 IN
    /\ j <= Len(s)
    /\ text[i] = a[1]
    /\ \A k \in 2..Len(a) : text[i + k - 1] = a[k]
    /\ p.wordBound =>
        /\ i = 1 \/ ~IsWordChar(s[i - 1])
        /\ j = Len(s) \/ ~IsWordChar(s[j + 1])

MatchesAt(p, text, s, i) ==
    \E n \in DOMAIN p.alts : AltMatchesAt(p, text, s, i, p.alts[n])

\* pattern.test(str) of a global expression whose lastIndex is from: the
\* leftmost match that starts at or after from, its first alternative that
\* matches there; lastIndex becomes the end of the match, 0 when there is none.
test(p, s, from) ==
    LET text   == IF p.ignoreCase THEN toLowerCase(s) ELSE s
        starts == {i \in (from + 1)..Len(s) : MatchesAt(p, text, s, i)}
    IN  IF starts = {} THEN [hit |-> FALSE, lastIndex |-> 0]
        ELSE LET i == CHOOSE x \in starts : \A y \in starts : x <= y
                 n == CHOOSE x \in DOMAIN p.alts :
                          /\ AltMatchesAt(p, text, s, i, p.alts[x])
                          /\ \A y \in 1..(x - 1) : ~AltMatchesAt(p, text, s, i, p.alts[y])
             IN  [hit |-> TRUE, lastIndex |-> i - 1 + Len(p.alts[n])]

\* Every text of the model.
KnownStrings == {Text[name] : name \in DOMAIN Text}

\* test() of each expression on each of those strings from lastIndex 0,
\* worked out once.
TestFromStart ==
    [x \in (DOMAIN suspiciousPatterns) \X KnownStrings |->
        test(suspiciousPatterns[x[1]], x[2], 0)] @@ << >>

\* suspiciousPatterns[n].test(str) with lastIndex from.
testPattern(n, str, from) ==
    IF from = 0 /\ str \in KnownStrings THEN TestFromStart[<< n, str >>]
    ELSE test(suspiciousPatterns[n], str, from)

\* suspiciousPatterns.some(pattern => pattern.test(str)), from pattern n on;
\* lastIndexes holds the lastIndex of every expression.  The result r of a
\* test is bound by a set, so that it is worked out once.
RECURSIVE somePattern(_, _, _)
somePattern(n, str, lastIndexes) ==
    IF n > Len(suspiciousPatterns) THEN [found |-> FALSE, lastIndexes |-> lastIndexes]
    ELSE CHOOSE out \in
            { IF r.hit
              THEN [found |-> TRUE, lastIndexes |-> [lastIndexes EXCEPT ![n] = r.lastIndex]]
              ELSE somePattern(n + 1, str, [lastIndexes EXCEPT ![n] = r.lastIndex])
                : r \in {testPattern(n, str, lastIndexes[n])} } : TRUE

\* checkString (auth.middleware.js:238-240)
checkString(str, lastIndexes) == somePattern(1, str, lastIndexes)

\* The loop of checkObject (auth.middleware.js:242-251) over the entries left.
RECURSIVE checkEntries(_, _)
checkEntries(entries, lastIndexes) ==
    IF entries = << >> THEN [found |-> FALSE, lastIndexes |-> lastIndexes]
    ELSE LET value == Head(entries).v IN
         IF value.t # "str" /\ ~IsObject(value)
         THEN checkEntries(Tail(entries), lastIndexes)
         ELSE CHOOSE out \in
                 { IF r.found THEN r ELSE checkEntries(Tail(entries), r.lastIndexes)
                     : r \in { IF value.t = "str"
                               THEN checkString(value.s, lastIndexes)
                               ELSE checkEntries(value.kids, lastIndexes) } } : TRUE

\* checkObject: Object.entries(obj || {})
checkObject(obj, lastIndexes) == checkEntries(obj.kids, lastIndexes)

\* req.get(name) && checkString(req.get(name)): an empty header is falsy.
checkHeader(h, lastIndexes) ==
    IF h.has /\ h.value # << >> THEN checkString(h.value, lastIndexes)
    ELSE [found |-> FALSE, lastIndexes |-> lastIndexes]

\* const suspicious = ... (auth.middleware.js:254-259).  The expressions are
\* created anew on every invocation (:231), each with lastIndex 0.
Suspicious(pl) ==
    \E b \in {checkObject(pl.body, [n \in DOMAIN suspiciousPatterns |-> 0])} :
        b.found \/
    \E q \in {checkObject(pl.query, b.lastIndexes)} :
        q.found \/
    \E p \in {checkObject(pl.params, q.lastIndexes)} :
        p.found \/
    \E u \in {checkHeader(pl.userAgent, p.lastIndexes)} :
        u.found \/ checkHeader(pl.referer, u.lastIndexes).found

\* suspiciousActivityDetector (auth.middleware.js:230-281)
suspiciousActivityDetector(pl) ==
    IF Suspicious(pl)
    THEN Respond(400, << Log("error", "Suspicious activity detected") >>)
    ELSE CallNext(<< >>)

\* Values at the leaves of the bodies the detector is shown.
DetectorLeaves ==
    {Str(Text[name]) : name \in {"HelloWorld", "DropTable", "ScriptAlert", "BoldEmail",
                                  "UpperEmail", "DropUsers", "Dropped", "DotDotEtc",
                                  "Description"}}
        \cup {Num, Null}

\* What comes with the body: nothing at all; a clean query, path parameter
\* and headers; or those with exactly one of the four carrying an attack.
CleanSide ==
    [query |-> Map(<< Entry("q", Str(Text.HelloWorld)) >>),
     params |-> Map(<< Entry("id", Str(Text.Dropped)) >>),
     userAgent |-> Header(Text.CurlAgent), referer |-> Header(Text.PlainReferer)]
Sides ==
    { [query |-> Absent, params |-> Absent, userAgent |-> NoHeader, referer |-> NoHeader],
      CleanSide,
      [CleanSide EXCEPT !.query = Map(<< Entry("q", Str(Text.HelloWorld)),
                                         Entry("sort", Str(Text.DropUsers)) >>)],
      [CleanSide EXCEPT !.params = Map(<< Entry("id", Str(Text.DotDotEtc)) >>)],
      [CleanSide EXCEPT !.userAgent = Header(Text.BrowserAgent)],
      [CleanSide EXCEPT !.referer = Header(Text.QueryReferer)] }

Payload(body, side) ==
    [NoPayload EXCEPT !.body = body, !.query = side.query, !.params = side.params,
                      !.userAgent = side.userAgent, !.referer = side.referer]

\* A middleware of auth.middleware.js ran on the request r with payload pl,
\* left san on the request and set the response headers set.
FinishWith(name, a, r, pl, san, set, out) ==
    /\ mw' = name
    /\ arg' = a
    /\ req' = r
    /\ status' = out.status
    /\ nextCalls' = out.nextCalls
    /\ logs' = out.logs
    /\ ret' = [threw |-> out.threw, value |-> FALSE]
    /\ retryAfter' = 0
    /\ before' = NoBucket
    /\ payload' = pl
    /\ sanitized' = san
    /\ resHeaders' = set
    /\ UNCHANGED <<rateVars, flight>>

FinishHard(name, a, pl, san, out) ==
    FinishWith(name, a, Request(NoUser, NoParams), pl, san, {}, out)

Untouched(pl) == [body |-> pl.body, query |-> pl.query, params |-> pl.params]

CallSuspiciousActivityDetector ==
    /\ Idle
    /\ \E body \in Bodies(DetectorLeaves), side \in Sides :
        LET pl == Payload(body, side) IN
        FinishHard("suspiciousActivityDetector", NoArg, pl, Untouched(pl),
                   suspiciousActivityDetector(pl))

(***************************************************************************)
(* sanitizeInput and sanitizeObject (auth.middleware.js:66-122).  The      *)
(* markup filter xss and the validator functions are libraries; they are   *)
(* modelled from section 4.3 of the specification: tags are removed, the   *)
(* content of script elements goes with them where the filter is told so,  *)
(* a stray angle bracket is escaped, an address is case-folded.            *)
(***************************************************************************)
\* Position of the first angle bracket of s at or after position i, 0 if none.
RECURSIVE NextBracket(_, _)
NextBracket(s, i) ==
    IF i > Len(s) THEN 0
    ELSE IF s[i] \in {"<", ">"} THEN i
    ELSE NextBracket(s, i + 1)

\* A tag opens or closes a script element.
IsScriptTag(tag, closing) ==
    LET name == << "s", "c", "r", "i", "p", "t" >>
        from == IF closing THEN 3 ELSE 2
        text == toLowerCase(tag)
    IN  /\ Len(tag) >= from + Len(name)
        /\ closing => tag[2] = "/"
        /\ SubSeq(text, from, from + Len(name) - 1) = name
        /\ ~IsWordChar(text[from + Len(name)])

EscapeChar(c) ==
    CASE c = "<" -> << "&", "l", "t", ";" >>
      [] c = ">" -> << "&", "g", "t", ";" >>
      [] OTHER   -> << c >>

\* The filter at work on what is left of the string; inBody says that an
\* open script element's content is being dropped.
RECURSIVE xssScan(_, _, _)
xssScan(s, stripBody, inBody) ==
    IF s = << >> THEN << >>
    ELSE IF Head(s) # "<"
    THEN (IF inBody THEN << >> ELSE EscapeChar(Head(s)))
             \o xssScan(Tail(s), stripBody, inBody)
    ELSE LET j == NextBracket(s, 2) IN
         IF j = 0
         THEN \* no bracket follows: a lone < is text, anything longer a tag
              IF Len(s) = 1 /\ ~inBody THEN EscapeChar("<") ELSE << >>
         ELSE IF s[j] = "<"
         THEN (IF inBody THEN << >> ELSE EscapeChar("<") \o SubSeq(s, 2, j - 1))
                  \o xssScan(SubSeq(s, j, Len(s)), stripBody, inBody)
         ELSE LET tag  == SubSeq(s, 1, j)
                  rest == SubSeq(s, j + 1, Len(s))
              IN  IF stripBody /\ IsScriptTag(tag, FALSE) THEN xssScan(rest, stripBody, TRUE)
                  ELSE IF stripBody /\ IsScriptTag(tag, TRUE) THEN xssScan(rest, stripBody, FALSE)
                  ELSE xssScan(rest, stripBody, inBody)

\* xss(value, { whiteList: {}, stripIgnoreTag: true, stripIgnoreTagBody: ['script'] })
\* when stripBody, xss(item, { whiteList: {}, stripIgnoreTag: true }) when not.
\* The filter on the texts of the model, worked out once.
XssTable ==
    [x \in KnownStrings \X BOOLEAN |-> xssScan(x[1], x[2], FALSE)] @@ << >>

xss(s, stripBody) ==
    IF s \in KnownStrings THEN XssTable[<< s, stripBody >>] ELSE xssScan(s, stripBody, FALSE)

\* validator.isEmail: one @, before it letters, digits and inner dots, after
\* it two or more such labels joined by dots.
IsLabel(s) == s # << >> /\ \A i \in DOMAIN s : IsWordChar(s[i]) \/ s[i] = "-"
RECURSIVE IsDotted(_, _)
IsDotted(s, least) ==
    LET dots == {i \in DOMAIN s : s[i] = "."} IN
    IF dots = {} THEN least <= 1 /\ IsLabel(s)
    ELSE LET i == CHOOSE x \in dots : \A y \in dots : x <= y IN
         /\ IsLabel(SubSeq(s, 1, i - 1))
         /\ IsDotted(SubSeq(s, i + 1, Len(s)), least - 1)

isEmail(s) ==
    LET ats == {i \in DOMAIN s : s[i] = "@"} IN
    /\ Cardinality(ats) = 1
    /\ LET at == CHOOSE i \in ats : TRUE IN
       /\ IsDotted(SubSeq(s, 1, at - 1), 1)
       /\ IsDotted(SubSeq(s, at + 1, Len(s)), 2)

\* validator.normalizeEmail: the address in lower case.
normalizeEmail(s) == toLowerCase(s)

\* Faulty variant: the address check applied to the value as it came in.
sanitizeStringEmailOfRaw(key, value) ==
    IF key = "email" /\ isEmail(value) THEN normalizeEmail(value) ELSE xss(value, TRUE)

\* A string value of an object (auth.middleware.js:98-110)
sanitizeString(key, value) ==
    LET filtered == xss(value, TRUE) IN
    IF key = "email" /\ isEmail(filtered) THEN normalizeEmail(filtered) ELSE filtered

\* value.map(item => typeof item === 'string' ? xss(item, ...) : item) (:114-116)
sanitizeItems(items) ==
    [i \in DOMAIN items |->
        IF items[i].v.t = "str"
        THEN Entry(items[i].k, Str(xss(items[i].v.s, FALSE)))
        ELSE items[i]]

\* The loop of sanitizeObject (auth.middleware.js:97-119) over the entries left.
RECURSIVE sanitizeEntries(_)
sanitizeEntries(entries) ==
    IF entries = << >> THEN << >>
    ELSE LET key   == Head(entries).k
             value == Head(entries).v
             done  == IF value.t = "str" THEN Str(sanitizeString(key, value.s))
                      ELSE IF value.t = "map" THEN Map(sanitizeEntries(value.kids))
                      ELSE IF value.t = "arr"
                           THEN [value EXCEPT !.kids = sanitizeItems(value.kids)]
                      ELSE value
         IN  << Entry(key, done) >> \o sanitizeEntries(Tail(entries))

\* sanitizeObject (auth.middleware.js:94-122): the result is a plain object,
\* whatever obj was.
sanitizeObject(obj) == Map(sanitizeEntries(obj.kids))

\* if (req.x && typeof req.x === 'object') req.x = sanitizeObject(req.x)
sanitizeField(v) == IF IsObject(v) THEN sanitizeObject(v) ELSE v

\* sanitizeInput (auth.middleware.js:66-91): the outcome and what is left on
\* the request.  The three assignments run in order; on a request whose
\* query property has a getter and no setter (a module is strict code) the
\* second one raises, after req.body was replaced, and the catch block
\* answers 400.
Sanitized(pl) ==
    IF IsObject(pl.query) /\ pl.queryReadOnly
    THEN [body |-> sanitizeField(pl.body), query |-> pl.query, params |-> pl.params]
    ELSE [body |-> sanitizeField(pl.body), query |-> sanitizeField(pl.query),
          params |-> sanitizeField(pl.params)]

sanitizeInput(pl) ==
    IF IsObject(pl.query) /\ pl.queryReadOnly
    THEN Respond(400, << Log("error", "Input sanitization error:") >>)
    ELSE CallNext(<< >>)

\* Values at the leaves of the bodies the sanitizer is shown.
SanitizerLeaves ==
    {Str(Text[name]) : name \in {"HelloWorld", "ScriptAlert", "BoldEmail", "UpperEmail",
                                  "GreaterThan"}}
        \cup {Num, Null}

SanitizerSides ==
    { [query |-> Absent, params |-> Absent, userAgent |-> NoHeader, referer |-> NoHeader],
      CleanSide,
      [CleanSide EXCEPT !.query = Map(<< Entry("q", Str(Text.ScriptAlert)) >>),
                        !.params = Map(<< Entry("email", Str(Text.BoldEmail)) >>)] }

CallSanitizeInput ==
    /\ Idle
    /\ \E body \in Bodies(SanitizerLeaves), side \in SanitizerSides, ro \in BOOLEAN :
        LET pl == [Payload(body, side) EXCEPT !.queryReadOnly = ro] IN
        FinishHard("sanitizeInput", NoArg, pl, Sanitized(pl), sanitizeInput(pl))

(***************************************************************************)
(* requestSizeLimit and parseSize (auth.middleware.js:200-227).  A size    *)
(* is a fraction num / den: parseFloat of digits with a decimal part is    *)
(* not a whole number.  For the short numerals of the model num / den      *)
(* times a power of 1024 compares with a whole number as the double does.  *)
(***************************************************************************)
Size(n, d) == [nan |-> FALSE, num |-> n, den |-> d]

\* The longest prefix of s made of characters of the set.
RECURSIVE Leading(_, _)
Leading(s, set) ==
    IF s # << >> /\ Head(s) \in set THEN << Head(s) >> \o Leading(Tail(s), set) ELSE << >>

RECURSIVE DigitsToNat(_, _)
DigitsToNat(s, acc) ==
    IF s = << >> THEN acc ELSE DigitsToNat(Tail(s), acc * 10 + DigitVal(Head(s)))

RECURSIVE PowerOfTen(_)
PowerOfTen(n) == IF n = 0 THEN 1 ELSE 10 * PowerOfTen(n - 1)

\* const units = { b: 1, kb: 1024, mb: 1024 * 1024, gb: 1024 * 1024 * 1024 } (:222)
units ==
    [name \in {<< "b" >>, << "k", "b" >>, << "m", "b" >>, << "g", "b" >>} |->
        CASE name = << "b" >>      -> 1
          [] name = << "k", "b" >> -> 1024
          [] name = << "m", "b" >> -> 1024 * 1024
          [] name = << "g", "b" >> -> 1024 * 1024 * 1024]


\* Faulty variant: parseSize that takes every unit for bytes.
parseSizeBytesOnly(size) ==
    LET text == toLowerCase(size)
        whole == Leading(text, DecimalDigits)
    IN  IF whole = << >> THEN Size(0, 1) ELSE Size(DigitsToNat(whole, 0), 1)

\* parseSize (auth.middleware.js:221-227):
\* size.toLowerCase().match(/^(\d+(?:\.\d+)?)\s*([a-z]+)?$/), then
\* parseFloat(num) * (units[unit] || 1) with unit = 'b' when there is none.
\* units inherits a value under one lower-case name, 'constructor': a
\* function, which the product turns into NaN.
parseSize(size) ==
    LET text   == toLowerCase(size)
        whole  == Leading(text, DecimalDigits)
        after1 == SubSeq(text, Len(whole) + 1, Len(text))
        frac   == IF after1 # << >> /\ Head(after1) = "."
                  THEN Leading(Tail(after1), DecimalDigits) ELSE << >>
        after2 == IF frac = << >> THEN after1
                  ELSE SubSeq(after1, Len(frac) + 2, Len(after1))
        blank  == Leading(after2, {" "})
        unit   == SubSeq(after2, Len(blank) + 1, Len(after2))
        number == Size(DigitsToNat(whole \o frac, 0), PowerOfTen(Len(frac)))
    IN  IF whole = << >> \/ \E i \in DOMAIN unit : unit[i] \notin LowerLetters
        THEN Size(0, 1)
        ELSE IF unit = << >> THEN number
        ELSE IF unit \in DOMAIN units
             THEN Size(number.num * units[unit], number.den)
        ELSE IF unit = << "c", "o", "n", "s", "t", "r", "u", "c", "t", "o", "r" >>
             THEN [nan |-> TRUE, num |-> 0, den |-> 1]
        ELSE number

\* parseInt(req.headers['content-length']) > parseSize(limit): false when
\* either side is NaN.
Exceeds(length, size) ==
    ~length.nan /\ ~size.nan /\ length.val * size.den > size.num

\* limit = '10mb' when the factory is called without one (:200)
DefaultLimit(limit) == IF limit.given THEN limit.text ELSE Text.TenMb

\* An empty header value is falsy, like an absent one.
HasLength(pl) == pl.contentLength.has /\ pl.contentLength.value # << >>

\* requestSizeLimit (auth.middleware.js:200-218)
requestSizeLimit(limit, pl) ==
    IF HasLength(pl) /\ Exceeds(parseInt(pl.contentLength), parseSize(DefaultLimit(limit)))
    THEN Respond(413, << Log("warn", "Request size limit exceeded") >>)
    ELSE CallNext(<< >>)

\* Size strings handed to the factory: the default, examples, and every
\* short string over a few characters.
LimitArgs ==
    {NoLimit} \cup
    {[given |-> TRUE, text |-> s] :
        s \in {Text.TenMb, Text.NotASize, Text.TenSpaceMB, Text.OneAndHalfKb,
               Text.TenXyz, Text.TenConstructor, Text.OneGb}
              \cup SeqsUpTo({"1", "5", ".", "k", "b", "M", " "}, MaxLen)}

\* Content-Length headers: none, an empty one, numerals around the limits
\* of the examples, and one that is no number.
LengthInputs ==
    {NoHeader, Header(<< >>)} \cup
    {Header(s) : s \in {Text.Len0, Text.Len1, Text.Len10, Text.Len1536, Text.Len1537,
                         Text.LenTenMb, Text.LenOverTenMb, Text.LenAbc}}

CallRequestSizeLimit ==
    /\ Idle
    /\ \E limit \in LimitArgs, length \in LengthInputs :
        LET pl == [NoPayload EXCEPT !.contentLength = length] IN
        /\ FinishHard("requestSizeLimit", [NoArg EXCEPT !.limit = limit], pl,
                      Untouched(pl), requestSizeLimit(limit, pl))

(***************************************************************************)
(* authenticateToken, requireRole and securityHeaders                      *)
(* (auth.middleware.js:6-57, 182-197).                                     *)
(***************************************************************************)
\* authenticateToken (auth.middleware.js:6-36).  What the token of a request
\* leads to: there is "none" in the cookie or the Authorization header;
\* jwttoken.verify returns the claims of a "valid" one, returns nothing for a
\* "void" one and raises on a "forged" one.
authenticateToken(pl) ==
    CASE pl.token = "none"   -> Respond(401, << >>)
      [] pl.token = "void"   -> Respond(401, << >>)
      [] pl.token = "forged" -> Respond(401, << Log("error", "Authentication error:") >>)
      [] OTHER               -> CallNext(<< >>)

\* req.user = decoded (auth.middleware.js:27)
Decoded(pl, u) == IF pl.token = "valid" THEN u ELSE NoUser

\* Faulty variant: requireRole whose 403 branch does not return.
requireRoleFallsThrough(roles, r) ==
    IF ~r.user.present THEN Respond(401, << >>)
    ELSE IF ~includes(roles, r.user.role)
         THEN [status |-> 403, nextCalls |-> 1, logs |-> << >>, threw |-> FALSE]
         ELSE CallNext(<< >>)

\* requireRole (auth.middleware.js:39-57), roles an array of role names
requireRole(roles, r) ==
    IF ~r.user.present THEN Respond(401, << >>)
    ELSE IF ~includes(roles, r.user.role) THEN Respond(403, << >>)
    ELSE CallNext(<< >>)

\* securityHeaders (auth.middleware.js:182-197)
securityHeaders == CallNext(<< >>)

CallAuthenticateToken ==
    /\ Idle
    /\ \E kind \in {"none", "valid", "void", "forged"}, u \in Users \ {NoUser} :
        LET pl == [NoPayload EXCEPT !.token = kind] IN
        FinishWith("authenticateToken", NoArg, Request(Decoded(pl, u), NoParams),
                   pl, Untouched(pl), {}, authenticateToken(pl))

CallRequireRole ==
    /\ Idle
    /\ \E roles \in SeqsUpTo({"admin", "user"}, MaxPerms), u \in Users :
        FinishWith("requireRole", [NoArg EXCEPT !.roles = roles], Request(u, NoParams),
                   NoPayload, NoSanitized, {}, requireRole(roles, Request(u, NoParams)))

CallSecurityHeaders ==
    /\ Idle
    /\ FinishWith("securityHeaders", NoArg, Request(NoUser, NoParams),
                  NoPayload, NoSanitized,
                  { "Content-Security-Policy", "X-Content-Type-Options", "X-Frame-Options",
                    "X-XSS-Protection", "Referrer-Policy", "Permissions-Policy" },
                  securityHeaders)

NextHarden ==
    \/ CallSuspiciousActivityDetector
    \/ CallSanitizeInput
    \/ CallRequestSizeLimit
    \/ Return

SpecHarden == Init /\ [][NextHarden]_vars

\* Every middleware of the two files but the rate limiter.
NextCore ==
    \/ CallRequirePermission
    \/ CallRequireAnyPermission
    \/ CallRequireAllPermissions
    \/ CallRequireOwnership
    \/ CallRequireOwnershipOrPermission
    \/ CallRequireRole
    \/ CallAuthenticateToken
    \/ CallSanitizeInput
    \/ CallSecurityHeaders
    \/ CallRequestSizeLimit
    \/ CallSuspiciousActivityDetector
    \/ Return

SpecCore == Init /\ [][NextCore]_vars

(***************************************************************************)
(* Requests that overlap in the rate limiter (auth.middleware.js:125-160). *)
(* The middleware of express-rate-limit generates the key, counts the hit  *)
(* in the store and decides, and other requests may run between these      *)
(* steps.  Following section 5 of the specification the hit is one step:   *)
(* it reads and writes the key's bucket without interruption.              *)
(***************************************************************************)
Slots == 1..MaxFlights

\* Requests that overlap: anonymous ones from two origins.
ConcRequests == { Anon(<< "1" >>, << "1" >>), Anon(<< "2" >>, << "2" >>) }

\* Faulty variant: the hit works on the store as it was when the request arrived.
StoreAtArrival(i) == flight[i].seen

\* The store a hit reads: the store as it is at the time of the hit.
StoreAtHit(i) == store

\* A request arrives in the lowest free slot and its key is generated.
RequestArrives ==
    \E i \in Slots, r \in ConcRequests :
        /\ flight[i].pc = "none"
        /\ \A j \in 1..(i - 1) : flight[j].pc # "none"
        /\ flight' = [flight EXCEPT ![i] =
                         [NoFlight EXCEPT !.pc = "keyed", !.key = keyGenerator(r),
                                          !.seen = store]]
        /\ UNCHANGED <<guardVars, rateVars, hardVars>>

\* The hit of a request is counted.
HitCounted ==
    \E i \in Slots :
        /\ flight[i].pc = "keyed"
        /\ LET k == flight[i].key
               b == Increment(StoreAtHit(i), k, now, Options.windowMs)
           IN  /\ store' = (k :> b) @@ store
               /\ flight' = [flight EXCEPT ![i].pc = "counted", ![i].totalHits = b.count,
                                           ![i].seen = << >>]
        /\ UNCHANGED <<guardVars, tier, now, hardVars>>

\* The request is rejected through the handler or passed to next().
RequestDecided ==
    \E i \in Slots :
        /\ flight[i].pc = "counted"
        /\ flight' = [flight EXCEPT ![i].pc = "done",
                         ![i].outcome = IF flight[i].totalHits > Options.max
                                        THEN "rejected" ELSE "next"]
        /\ UNCHANGED <<guardVars, rateVars, hardVars>>

InitConc ==
    /\ mw = "none"
    /\ arg = NoArg
    /\ req = Request(NoUser, NoParams)
    /\ status = 0
    /\ nextCalls = 0
    /\ logs = << >>
    /\ ret = NoRet
    /\ retryAfter = 0
    /\ before = NoBucket
    /\ tier = exampleRateLimit
    /\ now = 0
    /\ store = << >>
    /\ payload = NoPayload
    /\ sanitized = NoSanitized
    /\ resHeaders = {}
    /\ flight = [i \in Slots |-> NoFlight]

NextConc ==
    \/ RequestArrives
    \/ HitCounted
    \/ RequestDecided

SpecConc == InitConc /\ [][NextConc]_vars

(***************************************************************************)
(* Claims about the role registry and the authorization guards.            *)
(***************************************************************************)
\* The permissions a registry role lists, as a set.
Listed(roleName) == {ROLES[roleName][i] : i \in DOMAIN ROLES[roleName]}

IsOwnershipBypassRole(roleName) == roleName \in {"admin", "superadmin"}

\* C1: for every role name absent from the registry (names of built-in object
\* properties and undefined included) and every permission, hasPermission
\* returns false and raises nothing.
C1_UnknownRoleReturnsFalse ==
    (mw = "hasPermission" /\ arg.role \notin RegistryRoles)
        => (~ret.threw /\ ret.value = FALSE)

\* C2: for every registry role and every permission string p, in the catalog
\* or not, hasPermission(role, p) is true exactly when the role lists the
\* wildcard or lists p; superadmin is granted every p.
C2_HasPermissionIffWildcardOrListed ==
    (mw = "hasPermission" /\ arg.role \in RegistryRoles)
        => /\ ~ret.threw
           /\ ret.value <=> ("*" \in Listed(arg.role) \/ arg.perm \in Listed(arg.role))
           /\ arg.role = "superadmin" => ret.value

\* C2's case: superadmin asked for a permission outside the catalog.
C2_Witness ==
    /\ mw = "hasPermission"
    /\ arg.role = "superadmin"
    /\ arg.perm \notin PERMISSIONS
    /\ arg.perm # "*"
    /\ ret.value

\* C3: with an identity whose role is not in the registry, none of
\* requirePermission, requireAnyPermission, requireAllPermissions calls
\* next(), whatever the permission or the list (empty or defaulted included).
C3_UnknownRoleNeverProceeds ==
    ( /\ mw \in {"requirePermission", "requireAnyPermission", "requireAllPermissions"}
      /\ req.user.present
      /\ req.user.role \notin RegistryRoles )
        => nextCalls = 0

\* C4: requirePermission(p) answers 401 without an identity, 403 when
\* hasPermission(identity.role, p) is false, and lets every other request
\* through to the handler.
C4_RequirePermissionDecision ==
    mw = "requirePermission" =>
        LET h == hasPermission(req.user.role, arg.perm) IN
        IF ~req.user.present THEN status = 401 /\ nextCalls = 0
        ELSE IF ~h.threw /\ ~h.value THEN status = 403 /\ nextCalls = 0
        ELSE status = 0 /\ nextCalls = 1

\* A path-parameter value that is a decimal numeral, and the number it writes.
IsNumeral(v) ==
    /\ v.has
    /\ v.value # << >>
    /\ \A i \in DOMAIN v.value : IsDigit(v.value[i], 10)

Denotes(v, id) == IsNumeral(v) /\ ParseDigits(v.value, 10, 0, FALSE).val = id

\* C5: requireOwnership lets an identity that is neither admin nor superadmin
\* through exactly when the path parameter denotes the identity's id (a
\* missing, non-numeric or partly numeric value does not) and answers 403
\* otherwise; admin and superadmin always go through.
C5_OwnershipDecision ==
    (mw = "requireOwnership" /\ req.user.present /\ req.params.present) =>
        IF IsOwnershipBypassRole(req.user.role)
        THEN nextCalls = 1 /\ status = 0
        ELSE IF Denotes(req.params, req.user.id)
             THEN nextCalls = 1 /\ status = 0
             ELSE nextCalls = 0 /\ status = 403

\* C6: requireOwnershipOrPermission(p, idParam) lets a request through
\* whenever requirePermission(p) or requireOwnership(idParam) would (the
\* admin / superadmin ownership bypass included) and answers 403 otherwise.
\* Stated for identities whose role is in the registry.
C6_PassesIfEitherCheckPasses ==
    ( /\ mw = "requireOwnershipOrPermission"
      /\ req.user.present
      /\ req.user.role \in RegistryRoles
      /\ req.params.present ) =>
        IF \/ requirePermission(arg.perm, req).nextCalls = 1
           \/ requireOwnership(req).nextCalls = 1
        THEN nextCalls = 1 /\ status = 0
        ELSE nextCalls = 0 /\ status = 403

(***************************************************************************)
(* Claims about the rate limiter, checked under SpecRate.                  *)
(***************************************************************************)
\* The last request's key, and whether its bucket's window was still open
\* when the request arrived.
LastKey == keyGenerator(req)
WindowOpen == before.exists /\ now < before.windowStart + tier.windowMs

\* The place of the last request among the requests of its key's window.
OrdinalInWindow == IF WindowOpen THEN before.count + 1 ELSE 1

\* C7: for each tier (windowMs, max) and each key, the first max requests of
\* a window proceed and every further request of that window is answered 429
\* and does not proceed.
C7_FirstMaxProceedThenRejected ==
    mw = "rateLimit" =>
        IF OrdinalInWindow <= tier.max
        THEN nextCalls = 1 /\ status = 0
        ELSE nextCalls = 0 /\ status = 429

\* C7's case: with windowMs = 60000 and max = 3, the 4th request of a window.
C7_Witness ==
    /\ mw = "rateLimit"
    /\ tier = exampleRateLimit
    /\ WindowOpen
    /\ before.count = 3
    /\ status = 429

\* C8: every 429 carries retryAfter equal to the seconds remaining in the
\* key's current window, so 0 < retryAfter <= window duration in seconds, and
\* it decreases as the window progresses.
C8_RetryAfterIsSecondsRemaining ==
    (mw = "rateLimit" /\ status = 429) =>
        /\ retryAfter = CeilDiv(store[LastKey].windowStart + tier.windowMs - now, 1000)
        /\ 0 < retryAfter
        /\ retryAfter * 1000 <= tier.windowMs
        /\ (now > store[LastKey].windowStart => retryAfter < CeilDiv(tier.windowMs, 1000))

\* The seconds left in the window of the last request's key.
SecondsRemaining == CeilDiv(store[LastKey].windowStart + tier.windowMs - now, 1000)

\* C8, amended: every 429 carries retryAfter = ceil(windowMs / 1000), the
\* whole window in seconds, whatever part of the window is left: it is
\* positive and never below the seconds remaining.
C8_RetryAfterIsWindowSeconds ==
    (mw = "rateLimit" /\ status = 429) =>
        /\ retryAfter = CeilDiv(tier.windowMs, 1000)
        /\ 0 < retryAfter
        /\ retryAfter >= SecondsRemaining

\* C8's case: a rejection half-way through the window, with less time left
\* than retryAfter says.
C8_Witness ==
    /\ mw = "rateLimit"
    /\ status = 429
    /\ now > store[LastKey].windowStart
    /\ SecondsRemaining < retryAfter

\* C9: once the time reaches windowStart + windowDuration, the key's next
\* request starts a fresh bucket with count 1 and proceeds, however many
\* requests the elapsed window counted or rejected.
C9_ElapsedWindowStartsFresh ==
    (mw = "rateLimit" /\ before.exists /\ now >= before.windowStart + tier.windowMs) =>
        /\ store[LastKey] = [count |-> 1, windowStart |-> now]
        /\ nextCalls = 1
        /\ status = 0

\* C9's case: a key rejected in its elapsed window is served again.
C9_Witness ==
    /\ mw = "rateLimit"
    /\ before.exists
    /\ before.count > tier.max
    /\ now >= before.windowStart + tier.windowMs
    /\ store[LastKey].count = 1
    /\ nextCalls = 1

\* The client origin and the identity of a request.
ClientOrigin(r) == IF r.ip # << >> THEN r.ip ELSE r.remoteAddress
Identity(r) == [present |-> r.user.present, id |-> r.user.id]
DifferentClient(r1, r2) ==
    ClientOrigin(r1) # ClientOrigin(r2) \/ Identity(r1) # Identity(r2)

\* C10: two requests that differ in client origin or in identity (an identity
\* of any integer id against an anonymous request included) have different
\* keys, and a request counted under one never changes the bucket of the other.
C10_KeysNeverShareState ==
    [][ mw' = "rateLimit" =>
            \A other \in RateRequests :
                DifferentClient(other, req') =>
                    /\ keyGenerator(other) # keyGenerator(req')
                    /\ BucketOf(store', keyGenerator(other))
                         = BucketOf(store, keyGenerator(other)) ]_vars

(***************************************************************************)
(* Claims about request hardening.                                         *)
(***************************************************************************)
\* The string leaves of a value, at any depth.
RECURSIVE StringsIn(_)
StringsIn(v) ==
    IF v.t = "str" THEN {v.s}
    ELSE UNION {StringsIn(v.kids[i].v) : i \in DOMAIN v.kids}

\* The string matches the expression somewhere, whatever was tested before.
MatchesPattern(p, s) ==
    LET text == IF p.ignoreCase THEN toLowerCase(s) ELSE s IN
    \E i \in 1..Len(s) : MatchesAt(p, text, s, i)

MatchesAnyPattern(s) ==
    \/ MatchesPattern(XssPattern, s)
    \/ MatchesPattern(SqlPattern, s)
    \/ MatchesPattern(TraversalPattern, s)
    \/ MatchesPattern(ScriptPattern, s)

\* The strings of the model's requests that match one of the four.
MatchingStrings == [s \in KnownStrings |-> MatchesAnyPattern(s)] @@ << >>

\* The strings of a request the detector is to look at.
InspectedStrings(pl) ==
    StringsIn(pl.body) \cup StringsIn(pl.query) \cup StringsIn(pl.params)
        \cup (IF pl.userAgent.has THEN {pl.userAgent.value} ELSE {})
        \cup (IF pl.referer.has THEN {pl.referer.value} ELSE {})

\* C11: the detector answers 400 and does not call next() exactly when some
\* string at any depth of body, query or params, or a User-Agent or Referer
\* header that is present, matches one of the four patterns; otherwise it
\* calls next() and sends nothing.  The outcome does not depend on which
\* strings and patterns were examined before the matching one.
C11_RejectsIffSomeStringMatches ==
    mw = "suspiciousActivityDetector" =>
        LET bad == \E s \in InspectedStrings(payload) : MatchingStrings[s] IN
        /\ bad => status = 400 /\ nextCalls = 0
        /\ ~bad => status = 0 /\ nextCalls = 1

\* The attack of the specification's example sits two levels down, after a
\* clean string, with everything else clean, and the request is rejected.
C11_Witness ==
    /\ mw = "suspiciousActivityDetector"
    /\ payload.body = Map(<< Entry("name", Str(Text.HelloWorld)),
                             Entry("note", Arr(<< Num, Str(Text.DropTable) >>)) >>)
    /\ payload.query = CleanSide.query
    /\ payload.userAgent = CleanSide.userAgent
    /\ status = 400

\* What the markup filter, in either of its two configurations, and the
\* address normalization after it can make of a string.
Stripped(s) == {xss(s, TRUE), xss(s, FALSE), normalizeEmail(xss(s, TRUE))}

\* Every string leaf of the value came out of the markup filter.
RECURSIVE Transformed(_, _)
Transformed(in, out) ==
    IF in.t = "str" THEN out.t = "str" /\ out.s \in Stripped(in.s)
    ELSE IF IsObject(in)
    THEN /\ IsObject(out)
         /\ Len(out.kids) = Len(in.kids)
         /\ \A i \in DOMAIN in.kids : Transformed(in.kids[i].v, out.kids[i].v)
    ELSE out = in

\* C12: once sanitizeInput has called next(), every string leaf of body,
\* query and params, at every depth and under every nesting of mappings and
\* sequences, has been passed through the markup-stripping transform.
C12_EveryStringLeafStripped ==
    (mw = "sanitizeInput" /\ nextCalls = 1) =>
        /\ Transformed(payload.body, sanitized.body)
        /\ Transformed(payload.query, sanitized.query)
        /\ Transformed(payload.params, sanitized.params)

SizeCuts(text) ==
    LET n == Len(text) IN
    { c \in (1..n) \X (1..n) \X (1..n) :
        /\ c[1] <= c[2] /\ c[2] <= c[3]
        /\ \A x \in 1..c[1] : text[x] \in DecimalDigits
        /\ c[2] > c[1] =>
            /\ text[c[1] + 1] = "."
            /\ c[2] > c[1] + 1
            /\ \A x \in (c[1] + 2)..c[2] : text[x] \in DecimalDigits
        /\ \A x \in (c[2] + 1)..c[3] : text[x] = " "
        /\ \A x \in (c[3] + 1)..n : text[x] \in LowerLetters }

Unparsable(size) == SizeCuts(toLowerCase(size)) = {}

UnitFactor(unit) ==
    CASE unit = << >> -> 1
      [] unit = << "b" >> -> 1
      [] unit = << "k", "b" >> -> 1024
      [] unit = << "m", "b" >> -> 1024 * 1024
      [] unit = << "g", "b" >> -> 1024 * 1024 * 1024
      [] OTHER -> 0

\* The Content-Length of the request as a number, -1 when it has none or
\* one that does not start with a numeral.
DeclaredLength ==
    IF HasLength(payload) /\ ~parseInt(payload.contentLength).nan
    THEN parseInt(payload.contentLength).val ELSE 0 - 1

\* C14 as the specification states it: a limiter built from an unparsable
\* size string answers 413 to every request, with or without Content-Length.
C14_UnparsableLimitRejectsEverything ==
    (mw = "requestSizeLimit" /\ Unparsable(DefaultLimit(arg.limit))) =>
        status = 413 /\ nextCalls = 0

\* C14: a size string of digits, an optional decimal part, optional white
\* space and a unit of the table (none meaning bytes), in any letter case,
\* gives the limit number x unit, and the limiter answers 413 exactly to the
\* requests that declare a greater length; an unparsable size string gives
\* the limit 0, and the limiter answers 413 exactly to the requests that
\* declare a length above 0.  Every other request goes to next().
C14_LimitIsNumberTimesUnit ==
    mw = "requestSizeLimit" =>
        LET text == toLowerCase(DefaultLimit(arg.limit))
            cuts == SizeCuts(text)
        IN  /\ status \in {0, 413}
            /\ (status = 0) = (nextCalls = 1)
            /\ cuts = {} => ((status = 413) = (DeclaredLength > 0))
            /\ \A c \in cuts :
                LET digits == SubSeq(text, 1, c[1]) \o SubSeq(text, c[1] + 2, c[2])
                    scale  == PowerOfTen(c[2] - c[1] - (IF c[2] > c[1] THEN 1 ELSE 0))
                    factor == UnitFactor(SubSeq(text, c[3] + 1, Len(text)))
                IN  factor > 0 =>
                        ((status = 413) =
                            (DeclaredLength * scale > DigitsToNat(digits, 0) * factor))

\* The limiter built from 'not-a-size' rejected a request that declares one byte.
C14_Witness ==
    /\ mw = "requestSizeLimit"
    /\ arg.limit = [given |-> TRUE, text |-> Text.NotASize]
    /\ payload.contentLength = Header(Text.Len1)
    /\ status = 413

(***************************************************************************)
(* Claims about faults, logging and outcomes.                              *)
(***************************************************************************)
\* The permission lookup faults on the role: ROLES[role] is a value every
\* object inherits, which has no permissions list.
LookupFaults(userRole) == userRole \in ObjectPrototypeKeys

\* The guard that ran met a fault while it evaluated its check.
FaultRaised ==
    /\ req.user.present
    /\ \/ mw = "requirePermission" /\ LookupFaults(req.user.role)
       \/ /\ mw \in {"requireAnyPermission", "requireAllPermissions"}
          /\ arg.perms.given /\ arg.perms.list # << >>
          /\ LookupFaults(req.user.role)
       \/ mw = "requireOwnership" /\ ~req.params.present
       \/ /\ mw = "requireOwnershipOrPermission"
          /\ ~req.params.present \/ LookupFaults(req.user.role)

\* C15: a guard that meets a fault while it evaluates its check answers 500,
\* writes an error entry to the log, does not call next(), and lets no
\* exception out.
C15_FaultsAnswered500 ==
    FaultRaised =>
        /\ status = 500
        /\ nextCalls = 0
        /\ \E i \in DOMAIN logs : logs[i].level = "error"
        /\ ~ret.threw

\* An administrator's request without a params object reached requireOwnership.
C15_Witness ==
    /\ mw = "requireOwnership"
    /\ req.user.present /\ req.user.role = "admin"
    /\ ~req.params.present
    /\ status = 500

\* The slots whose request has the key and has been counted / was passed on.
CountedFor(k) == {i \in Slots : flight[i].key = k /\ flight[i].pc \in {"counted", "done"}}
PassedFor(k)  == {i \in Slots : flight[i].key = k /\ flight[i].outcome = "next"}

\* C16: however requests with one key interleave inside one window, no
\* increment is lost (the key's count is the number of requests counted,
\* and they were given the totals 1, 2, ... without gap or repeat), and at
\* most max of them proceed.
C16_NoHitLostAtMostMaxProceed ==
    \A r \in ConcRequests :
        LET k == keyGenerator(r) IN
        /\ BucketOf(store, k).count = Cardinality(CountedFor(k))
        /\ {flight[i].totalHits : i \in CountedFor(k)} = 1..Cardinality(CountedFor(k))
        /\ Cardinality(PassedFor(k)) <= tier.max

\* More requests than the maximum overlapped on one key, the second to
\* arrive was counted before the first, and the one counted last was
\* rejected while the others went on.
C16_Witness ==
    LET k == keyGenerator(Anon(<< "1" >>, << "1" >>)) IN
    /\ Cardinality(CountedFor(k)) > tier.max
    /\ \A i \in CountedFor(k) : flight[i].pc = "done"
    /\ flight[2].totalHits < flight[1].totalHits
    /\ Cardinality(PassedFor(k)) = tier.max

\* Statuses of the short-circuit responses of the core.
DenialStatuses == {400, 401, 403, 413, 429, 500}

\* C17: every response with status 401, 403, 400, 413, 429 or 500 is preceded,
\* in the same invocation, by a log entry; requirePermission logs every grant
\* too; and a request without identity never produces a 'granted' entry.
C17_EveryDenialLogged ==
    /\ status \in DenialStatuses => logs # << >>
    /\ (mw = "requirePermission" /\ nextCalls = 1) =>
           \E i \in DOMAIN logs : logs[i].msg = "Permission granted"
    /\ ~req.user.present =>
           \A i \in DOMAIN logs : logs[i].msg # "Permission granted"

Middlewares ==
    { "requirePermission", "requireAnyPermission", "requireAllPermissions",
      "requireOwnership", "requireOwnershipOrPermission", "requireRole",
      "authenticateToken", "sanitizeInput", "securityHeaders", "requestSizeLimit",
      "suspiciousActivityDetector" }

\* C18: every invocation of every middleware ends in exactly one outcome:
\* next() called once and no response sent, or a response sent and next()
\* never called; none does both, none does neither.
C18_ExactlyOneOutcome ==
    mw \in Middlewares =>
        /\ ~ret.threw
        /\ \/ nextCalls = 1 /\ status = 0
           \/ nextCalls = 0 /\ status # 0

\* A user whose role is not in the list reached requireRole and was refused.
C18_Witness ==
    /\ mw = "requireRole"
    /\ arg.roles = << "admin" >>
    /\ req.user.present /\ req.user.role = "user"
    /\ status = 403 /\ nextCalls = 0

====
